---- MODULE Spec2Model ----
(***************************************************************************)
(* State-machine model of src/server.js: the start-up script (environment  *)
(* validation, tier configuration, pool construction, engine options,      *)
(* listener), the per-request handlers (GET /health, GET /schema, the      *)
(* graph endpoint with its pgSettings callback), the pool 'error' handler  *)
(* and the SIGTERM / SIGINT shutdown handlers.                             *)
(*                                                                         *)
(* JavaScript strings are TLA+ strings.  A JavaScript object is a function *)
(* whose DOMAIN is the set of its own keys, so an absent key and a key     *)
(* holding undefined are different things.  JSON / JavaScript values that  *)
(* may be of several types are tagged records (Num, Str, Undefined).       *)
(***************************************************************************)
EXTENDS Integers, Sequences, FiniteSets, TLC

VARIABLES
    env,            \* process.env: a function from the names that are set
    pc,             \* position of the top-level script / "running" / "exited"
    exitCode,       \* status handed to the OS by process.exit (when pc = "exited")
    log,            \* set of console lines written so far (tags)
    JWT_SECRET,     \* const JWT_SECRET   (line 60)
    NODE_ENV,       \* const NODE_ENV     (line 61)
    IS_PRODUCTION,  \* const IS_PRODUCTION (line 62)
    pool,           \* pgPool: constructed, idle clients, ending, ended
    options,        \* the option object handed to postgraphile(...)
    server,         \* the http.Server returned by app.listen
    reqs,           \* the open connections and the request each carries
    shutdowns,      \* invocations of the SIGTERM / SIGINT handlers
    now             \* wall clock, in token-expiry units

vars == <<env, pc, exitCode, log, JWT_SECRET, NODE_ENV, IS_PRODUCTION,
          pool, options, server, reqs, shutdowns, now>>

-----------------------------------------------------------------------------
(* Bounds of the model *)

\* connections the listener holds open at one time
MaxConnections == 1
\* termination signals delivered in one run
MaxSignals == 2
\* last instant of the wall clock
MaxTime == 1

-----------------------------------------------------------------------------
(* JavaScript values *)

Num(n) == [t |-> "number", v |-> n]
Str(s) == [t |-> "string", v |-> s]
Undefined == [t |-> "undefined"]

\* the empty object literal {}
EmptyObject == [k \in {} |-> Undefined]

Digit(d) == SubSeq("0123456789", d + 1, d + 1)

RECURSIVE NatToString(_)
NatToString(n) == IF n < 10 THEN Digit(n)
                  ELSE NatToString(n \div 10) \o Digit(n % 10)

\* String(x) for the values a JSON payload member can hold here
String(x) == CASE x.t = "undefined" -> "undefined"
               [] x.t = "string"    -> x.v
               [] x.t = "number"    -> NatToString(x.v)

\* s.startsWith(p)
startsWith(s, p) == Len(s) >= Len(p) /\ SubSeq(s, 1, Len(p)) = p

\* s.substring(n)
substring(s, n) == IF Len(s) <= n THEN "" ELSE SubSeq(s, n + 1, Len(s))

-----------------------------------------------------------------------------
(* The environment the process is started in *)

Secret16 == "0123456789abcdef"
Secret31 == "0123456789abcdef0123456789abcde"
Secret32 == "0123456789abcdef0123456789abcdef"
OtherSecret32 == "ffffffffffffffffffffffffffffffff"

\* each variable: <<>> when unset, <<value>> when set (the empty string is set)
EnvChoices == [DATABASE_URL : {<<>>, <<"">>, <<"postgres://app:pw@db/main">>},
               JWT_SECRET   : {<<>>, <<"">>, <<Secret16>>, <<Secret31>>, <<Secret32>>},
               NODE_ENV     : {<<>>, <<"production">>, <<"development">>}]

\* connection strings that embed credentials: user:password@host.  An '@' or
\* a ':' inside the password is accepted by the driver, which splits the
\* authority at its last '@' and the credentials at their first ':'.
DbCredentials == [user : {"app"},
                  password : {"S3KR1T", "S3K:R1T", "S3K@R1T"},
                  host : {"db/main", "db:5432/main"}]

UrlOf(c) == "postgres://" \o c.user \o ":" \o c.password \o "@" \o c.host

\* the environments of the runs that look at the connection log line
UrlEnvChoices == [DATABASE_URL : {<<UrlOf(c)>> : c \in DbCredentials},
                  JWT_SECRET   : {<<>>, <<Secret16>>, <<Secret32>>},
                  NODE_ENV     : {<<>>, <<"production">>, <<"development">>}]

EnvKeys == {"DATABASE_URL", "JWT_SECRET", "NODE_ENV"}

EnvOf(c) == [k \in {n \in EnvKeys : Len(c[n]) = 1} |-> c[k][1]]

\* process.env[key] is falsy: unset or the empty string
Falsy(key) == key \notin DOMAIN env \/ env[key] = ""

\* process.env.X || fallback
OrElse(key, fallback) == IF Falsy(key) THEN fallback ELSE env[key]

-----------------------------------------------------------------------------
(* Start-up script, lines 16-86 *)

\* minimum length of the secret in production (lines 33 and 65)
MinSecretLength == 32

\* process.exit(code): the status the OS sees is the low byte
Exit(code) == /\ pc' = "exited"
              /\ exitCode' = code % 256

\* Missing, testing only that the variable is set (an empty value passes)
MissingUnsetOnly == {key \in {"DATABASE_URL", "JWT_SECRET"} : key \notin DOMAIN env}

\* validateEnv, lines 22-29: the required variables that are falsy
Missing == {key \in {"DATABASE_URL", "JWT_SECRET"} : Falsy(key)}

\* validateEnv, lines 31-36: the security warnings
Warnings ==
    IF "NODE_ENV" \in DOMAIN env /\ env["NODE_ENV"] = "production"
    THEN IF Falsy("JWT_SECRET") \/ Len(env["JWT_SECRET"]) < MinSecretLength
         THEN {"[WARN] Security warnings"}
         ELSE {}
    ELSE {}

\* a validateEnv that, on passing, writes the default tier into process.env
ValidateEnvWritesDefault ==
    /\ pc = "validateEnv"
    /\ IF Missing # {}
       THEN /\ log' = log \cup {"[FATAL] Missing required environment variables"}
            /\ Exit(1)
            /\ UNCHANGED env
       ELSE /\ log' = log \cup Warnings \cup {"[Config] Environment validation passed"}
            /\ pc' = "config"
            /\ env' = [k \in DOMAIN env \cup {"NODE_ENV"} |->
                          IF k = "NODE_ENV" THEN OrElse("NODE_ENV", "development")
                          ELSE env[k]]
            /\ UNCHANGED exitCode
    /\ UNCHANGED <<JWT_SECRET, NODE_ENV, IS_PRODUCTION, pool, options,
                   server, reqs, shutdowns, now>>

\* validateEnv() as called on line 54
ValidateEnv ==
    /\ pc = "validateEnv"
    /\ IF Missing # {}
       THEN /\ log' = log \cup {"[FATAL] Missing required environment variables"}
            /\ Exit(1)
       ELSE /\ log' = log \cup Warnings \cup {"[Config] Environment validation passed"}
            /\ pc' = "config"
            /\ UNCHANGED exitCode
    /\ UNCHANGED <<env, JWT_SECRET, NODE_ENV, IS_PRODUCTION, pool, options,
                   server, reqs, shutdowns, now>>

\* TierName with the fallback 'production'
TierNameDefaultProduction == OrElse("NODE_ENV", "production")

\* line 61: process.env.NODE_ENV || 'development'
TierName == OrElse("NODE_ENV", "development")

\* line 62: NODE_ENV === 'production'
IsProduction(name) == name = "production"

\* lines 59-62: the configuration constants
Configure ==
    /\ pc = "config"
    /\ JWT_SECRET' = env["JWT_SECRET"]
    /\ NODE_ENV' = TierName
    /\ IS_PRODUCTION' = IsProduction(TierName)
    /\ pc' = "secretCheck"
    /\ UNCHANGED <<env, exitCode, log, pool, options, server, reqs, shutdowns, now>>

\* InsecureSecret with <= for <
InsecureSecretOffByOne == IS_PRODUCTION /\ Len(JWT_SECRET) <= MinSecretLength

\* line 65: the condition of the production secret check
InsecureSecret == IS_PRODUCTION /\ Len(JWT_SECRET) < MinSecretLength

\* lines 64-68
SecretCheck ==
    /\ pc = "secretCheck"
    /\ IF InsecureSecret
       THEN /\ log' = log \cup {"[FATAL] JWT_SECRET must be at least 32 characters in production"}
            /\ Exit(1)
       ELSE /\ pc' = "newPool"
            /\ UNCHANGED <<exitCode, log>>
    /\ UNCHANGED <<env, JWT_SECRET, NODE_ENV, IS_PRODUCTION, pool, options,
                   server, reqs, shutdowns, now>>

\* the character of s at position i (positions start at 1)
charAt(s, i) == SubSeq(s, i, i)

\* [^:@]+ tried at position i: the position after the longest run of
\* characters other than ':' and '@' (i itself when the run is empty)
RECURSIVE RunEnd(_, _)
RunEnd(s, i) == IF i <= Len(s) /\ charAt(s, i) \notin {":", "@"}
                THEN RunEnd(s, i + 1)
                ELSE i

\* /:[^:@]+@/ matches at position i: a ':', a non-empty run, an '@'.  A
\* shorter run never helps: the character after it is not an '@'.
MatchesAt(s, i) ==
    /\ charAt(s, i) = ":"
    /\ LET j == RunEnd(s, i + 1)
       IN  j > i + 1 /\ j <= Len(s) /\ charAt(s, j) = "@"

\* s.replace(/:[^:@]+@/, ':****@'): the regex has no g flag, so only the
\* leftmost match is replaced
replace(s) ==
    IF \E i \in 1..Len(s) : MatchesAt(s, i)
    THEN LET i == CHOOSE k \in 1..Len(s) :
                      MatchesAt(s, k) /\ \A l \in 1..(k - 1) : ~MatchesAt(s, l)
             j == RunEnd(s, i + 1)
         IN  SubSeq(s, 1, i - 1) \o ":****@" \o SubSeq(s, j + 1, Len(s))
    ELSE s

\* lines 85-86: what follows '[PostgreSQL] Connecting to:' in the log
dbUrlSafe == IF Falsy("DATABASE_URL") THEN "DATABASE_URL not set"
             ELSE replace(env["DATABASE_URL"])

\* lines 70-86: new Pool(...), its 'error' listener, the connection log line
NewPool ==
    /\ pc = "newPool"
    /\ pool' = [pool EXCEPT !.constructed = TRUE]
    /\ log' = log \cup {"[PostgreSQL] Connecting to: " \o dbUrlSafe}
    /\ pc' = "postgraphile"
    /\ UNCHANGED <<env, exitCode, JWT_SECRET, NODE_ENV, IS_PRODUCTION, options,
                   server, reqs, shutdowns, now>>

-----------------------------------------------------------------------------
(* Credentials and the pgSettings callback, lines 149-169 *)

\* The signed tokens clients present: for each compact serialisation, the
\* secret its signature was made with and its payload.  "exp" is the instant
\* from which the token is expired.
Tokens ==
    [ s \in {"t.full", "t.str", "t.notenant", "t.nosub", "t.expired", "t.forged"} |->
        CASE s = "t.full" ->
                [key |-> Secret32,
                 payload |-> [userId |-> Num(42), tenantId |-> Str("t1")]]
          [] s = "t.str" ->
                [key |-> Secret32,
                 payload |-> [userId |-> Str("u7"), tenantId |-> Num(3), exp |-> Num(MaxTime)]]
          [] s = "t.notenant" ->
                [key |-> Secret32,
                 payload |-> [userId |-> Num(7)]]
          [] s = "t.nosub" ->
                [key |-> Secret32,
                 payload |-> [tenantId |-> Str("t1")]]
          [] s = "t.expired" ->
                [key |-> Secret32,
                 payload |-> [userId |-> Num(42), tenantId |-> Str("t1"), exp |-> Num(0)]]
          [] s = "t.forged" ->
                [key |-> OtherSecret32,
                 payload |-> [userId |-> Num(1), tenantId |-> Str("t2")]] ]

\* values of the authorization header; requests may also carry none
AuthHeaders ==
    {"Bearer " \o s : s \in DOMAIN Tokens}
        \cup {"Bearer ", "Bearer not-a-jwt", "bearer t.full", "Basic dXNlcjpwdw=="}

\* the headers objects of inbound requests
Headers == {EmptyObject} \cup {[authorization |-> h] : h \in AuthHeaders}

\* obj.key, undefined when the object has no such member
Member(obj, key) == IF key \in DOMAIN obj THEN obj[key] ELSE Undefined

\* jwt.verify(token, secret) at time t: the payload, or a thrown error
jwtVerify(token, secret, t) ==
    IF token \notin DOMAIN Tokens
    THEN [threw |-> TRUE, error |-> "JsonWebTokenError: jwt malformed"]
    ELSE IF Tokens[token].key # secret
    THEN [threw |-> TRUE, error |-> "JsonWebTokenError: invalid signature"]
    ELSE IF "exp" \in DOMAIN Tokens[token].payload /\ t >= Tokens[token].payload.exp.v
    THEN [threw |-> TRUE, error |-> "TokenExpiredError: jwt expired"]
    ELSE [threw |-> FALSE, value |-> Tokens[token].payload]

\* SettingsOf without the String(...) coercion of the subject
SettingsOfUncoerced(decoded) ==
    [k \in {"user.id", "user.tenant_id"} |->
        IF k = "user.id" THEN Member(decoded, "userId")
                         ELSE Member(decoded, "tenantId")]

\* lines 161-165: the object literal built from the decoded payload
SettingsOf(decoded) ==
    [k \in {"user.id", "user.tenant_id"} |->
        IF k = "user.id" THEN Str(String(Member(decoded, "userId")))
                         ELSE Member(decoded, "tenantId")]

\* VerifyOrEmpty without the try / catch: the error of jwt.verify escapes
VerifyUncaught(token, secret, t) ==
    LET v == jwtVerify(token, secret, t)
    IN  IF v.threw THEN [threw |-> TRUE, value |-> EmptyObject]
                   ELSE [threw |-> FALSE, value |-> SettingsOf(v.value)]

\* lines 159-168: try { jwt.verify ... } catch { return {} }
VerifyOrEmpty(token, secret, t) ==
    LET v == jwtVerify(token, secret, t)
    IN  IF v.threw THEN [threw |-> FALSE, value |-> EmptyObject]
                   ELSE [threw |-> FALSE, value |-> SettingsOf(v.value)]

\* NoBearer testing only that the header is there
NoBearerMissingOnly(headers) ==
    \/ "authorization" \notin DOMAIN headers
    \/ headers.authorization = ""

\* lines 151-152: no credential to look at
NoBearer(headers) ==
    \/ "authorization" \notin DOMAIN headers
    \/ headers.authorization = ""
    \/ ~startsWith(headers.authorization, "Bearer ")

\* pgSettings(req), lines 150-169: what the call returns or throws
pgSettings(headers, secret, t) ==
    IF NoBearer(headers)
    THEN [threw |-> FALSE, value |-> EmptyObject]
    ELSE VerifyOrEmpty(substring(headers.authorization, 7), secret, t)

-----------------------------------------------------------------------------
(* Engine options and listener, lines 171-231 *)

Bool(b) == [t |-> "boolean", v |-> b]

\* EngineOptions with the explorer left on in every tier
EngineOptionsExplorerOn(isProd) ==
    [graphqlRoute         |-> Str("/graphql"),
     graphiqlRoute        |-> Str("/graphiql"),
     graphiql             |-> TRUE,
     watchPg              |-> ~isProd,
     enableCors           |-> TRUE,
     extendedErrors       |-> IF isProd THEN <<>> ELSE <<"hint", "detail", "errcode">>,
     showErrorStack       |-> ~isProd,
     retryOnInitFail      |-> TRUE,
     maxAllowedComplexity |-> IF isProd THEN Num(1000) ELSE Undefined,
     maxAllowedDepth      |-> IF isProd THEN Num(10) ELSE Undefined]

\* lines 172-216: the option object, as evaluated with IS_PRODUCTION = isProd
EngineOptions(isProd) ==
    [graphqlRoute         |-> Str("/graphql"),
     graphiqlRoute        |-> IF isProd THEN Bool(FALSE) ELSE Str("/graphiql"),
     graphiql             |-> ~isProd,
     watchPg              |-> ~isProd,
     enableCors           |-> TRUE,
     extendedErrors       |-> IF isProd THEN <<>> ELSE <<"hint", "detail", "errcode">>,
     showErrorStack       |-> ~isProd,
     retryOnInitFail      |-> TRUE,
     maxAllowedComplexity |-> IF isProd THEN Num(1000) ELSE Undefined,
     maxAllowedDepth      |-> IF isProd THEN Num(10) ELSE Undefined]

\* lines 172-219: postgraphile(pgPool, 'public', {...}) and app.use(middleware)
InitPostgraphile ==
    /\ pc = "postgraphile"
    /\ options' = EngineOptions(IS_PRODUCTION)
    /\ pc' = "listen"
    /\ UNCHANGED <<env, exitCode, log, JWT_SECRET, NODE_ENV, IS_PRODUCTION, pool,
                   server, reqs, shutdowns, now>>

\* line 222: app.listen(PORT, cb) binds the listener
Listen ==
    /\ pc = "listen"
    /\ server' = [server EXCEPT !.bound = TRUE, !.listening = TRUE]
    /\ pc' = "signals"
    /\ UNCHANGED <<env, exitCode, log, JWT_SECRET, NODE_ENV, IS_PRODUCTION, pool,
                   options, reqs, shutdowns, now>>

\* lines 234 and 253: process.on('SIGTERM' / 'SIGINT', ...); the script ends
OnSignals ==
    /\ pc = "signals"
    /\ pc' = "listening"
    /\ UNCHANGED <<env, exitCode, log, JWT_SECRET, NODE_ENV, IS_PRODUCTION, pool,
                   options, server, reqs, shutdowns, now>>

\* lines 222-231: the callback of app.listen, run once the script has ended
ListenCallback ==
    /\ pc = "listening"
    /\ log' = log \cup {"GraphQL Service running",
                        IF IS_PRODUCTION THEN "GraphiQL: DISABLED in production"
                                         ELSE "GraphiQL: /graphiql"}
    /\ pc' = "running"
    /\ UNCHANGED <<env, exitCode, JWT_SECRET, NODE_ENV, IS_PRODUCTION, pool,
                   options, server, reqs, shutdowns, now>>

-----------------------------------------------------------------------------
(* Requests, lines 92-147 and the mounted engine, lines 207-219 *)

\* the connection slots of the run (Init fixes how many there are)
Requests == DOMAIN reqs

Kinds == {"health", "schema", "graphql"}

NoRequest == [stage |-> "none", kind |-> "none", headers |-> EmptyObject,
              resolved |-> FALSE, settings |-> [threw |-> FALSE, value |-> EmptyObject],
              at |-> 0, dbok |-> FALSE, cause |-> "none", status |-> 0]

\* connections that are open: accepted and not yet closed
Open(rs) == {r \in Requests : rs[r].stage \in {"accepted", "querying", "replying", "responded"}}

\* pool clients that are checked out
CheckedOut(rs) == {r \in Requests : rs[r].stage = "querying"}

\* net.Server emits 'close' (on the next tick) once close() was called and
\* no connection is left; the callbacks given to server.close run then
CloseRunnable == /\ pc = "running"
                 /\ ~server.listening
                 /\ server.closeCbs > 0
                 /\ Open(reqs) = {}

\* the promise the i-th shutdown handler awaits is settled
Settled(i) == shutdowns[i].rejected \/ pool.ended

\* a continuation of an async function is due: a handler whose awaited
\* promise is settled
MicrotaskDue == \/ \E i \in DOMAIN shutdowns : Settled(i)
                \/ \E r \in Requests : reqs[r].stage = "replying"

\* a continuation may run: the script has ended, the process is alive and no
\* next-tick callback is due (next-tick callbacks run before continuations)
Micro == pc = "running" /\ ~CloseRunnable

\* the event loop takes a new task (a connection, data, a timer, a signal):
\* nothing of the previous task is left to run
Idle == Micro /\ ~MicrotaskDue

\* the listener accepts a connection; its request has not arrived yet
Accept(r) ==
    /\ Idle
    /\ server.listening
    /\ reqs[r].stage = "none"
    /\ reqs' = [reqs EXCEPT ![r] = [NoRequest EXCEPT !.stage = "accepted"]]
    /\ UNCHANGED <<env, pc, exitCode, log, JWT_SECRET, NODE_ENV, IS_PRODUCTION,
                   pool, options, server, shutdowns, now>>

\* a callback that keeps the last non-empty context in a variable of the
\* module and hands it to whichever request is resolved while the request it
\* was computed for is still in flight
DispatchSharedContext(r, kind, headers) ==
    LET q == [reqs[r] EXCEPT !.kind = kind, !.headers = headers]
        others == {o \in Requests \ {r} :
                      /\ reqs[o].stage = "querying"
                      /\ reqs[o].resolved
                      /\ reqs[o].settings.value # EmptyObject}
        res == IF kind # "graphql" THEN q.settings
               ELSE IF others # {} THEN reqs[CHOOSE o \in others : TRUE].settings
               ELSE pgSettings(headers, JWT_SECRET, now)
        seen == [q EXCEPT !.resolved = (kind = "graphql"), !.settings = res,
                          !.at = IF kind = "graphql" THEN now ELSE 0]
    IN  /\ Idle
        /\ reqs[r].stage = "accepted"
        /\ IF pool.ending
           THEN /\ reqs' = [reqs EXCEPT ![r] = [seen EXCEPT !.stage = "replying",
                                                            !.cause = "pool ended"]]
                /\ UNCHANGED pool
           ELSE /\ reqs' = [reqs EXCEPT ![r] = [seen EXCEPT !.stage = "querying"]]
                /\ pool' = [pool EXCEPT !.idle = IF @ > 0 THEN @ - 1 ELSE 0]
        /\ UNCHANGED <<env, pc, exitCode, log, JWT_SECRET, NODE_ENV, IS_PRODUCTION,
                       options, server, shutdowns, now>>

\* a request arrives on connection r and reaches its route: the handler's
\* synchronous part.  The engine calls pgSettings(req) once and then takes a
\* client; /health and /schema call pgPool.query, which takes a client or, on
\* an ending pool, rejects.
Dispatch(r, kind, headers) ==
    LET q == [reqs[r] EXCEPT !.kind = kind, !.headers = headers]
        res == IF kind = "graphql" THEN pgSettings(headers, JWT_SECRET, now)
                                   ELSE q.settings
        seen == [q EXCEPT !.resolved = (kind = "graphql"), !.settings = res,
                          !.at = IF kind = "graphql" THEN now ELSE 0]
    IN  /\ Idle
        /\ reqs[r].stage = "accepted"
        /\ IF res.threw
           THEN /\ reqs' = [reqs EXCEPT ![r] = [seen EXCEPT !.stage = "replying",
                                                            !.cause = "pgSettings threw"]]
                /\ UNCHANGED pool
           ELSE IF pool.ending
           THEN /\ reqs' = [reqs EXCEPT ![r] = [seen EXCEPT !.stage = "replying",
                                                            !.cause = "pool ended"]]
                /\ UNCHANGED pool
           ELSE /\ reqs' = [reqs EXCEPT ![r] = [seen EXCEPT !.stage = "querying"]]
                /\ pool' = [pool EXCEPT !.idle = IF @ > 0 THEN @ - 1 ELSE 0]
        /\ UNCHANGED <<env, pc, exitCode, log, JWT_SECRET, NODE_ENV, IS_PRODUCTION,
                       options, server, shutdowns, now>>

\* the database answers (ok) or the query fails: the client is released; a
\* failed client, or any client of an ending pool, is removed, and an ending
\* pool with no client left has ended
DbReply(r, ok) ==
    /\ Idle
    /\ reqs[r].stage = "querying"
    /\ reqs' = [reqs EXCEPT ![r].stage = "replying",
                            ![r].dbok = ok,
                            ![r].cause = IF ok THEN "none" ELSE "query failed"]
    /\ pool' = IF pool.ending
               THEN [pool EXCEPT !.ended = (CheckedOut(reqs) = {r})]
               ELSE IF ok THEN [pool EXCEPT !.idle = @ + 1] ELSE pool
    /\ UNCHANGED <<env, pc, exitCode, log, JWT_SECRET, NODE_ENV, IS_PRODUCTION,
                   options, server, shutdowns, now>>

\* every route answering a failure with the generic 500
StatusOfAlways500(kind, ok) == IF ok THEN 200 ELSE 500

\* the status each route answers with
StatusOf(kind, ok) == IF ok THEN 200
                      ELSE IF kind = "health" THEN 503 ELSE 500

\* the handler resumes after its await and writes the response; the request
\* object is not used after that
Respond(r) ==
    /\ Micro
    /\ reqs[r].stage = "replying"
    /\ reqs' = [reqs EXCEPT ![r] = [NoRequest EXCEPT
                    !.stage = "responded",
                    !.kind = reqs[r].kind,
                    !.dbok = reqs[r].dbok,
                    !.cause = reqs[r].cause,
                    !.status = StatusOf(reqs[r].kind, reqs[r].dbok)]]
    /\ log' = IF reqs[r].kind = "schema" /\ ~reqs[r].dbok
              THEN log \cup {"Schema query error"} ELSE log
    /\ UNCHANGED <<env, pc, exitCode, JWT_SECRET, NODE_ENV, IS_PRODUCTION,
                   pool, options, server, shutdowns, now>>

\* the connection of an answered request closes
ConnClose(r) ==
    /\ Idle
    /\ reqs[r].stage = "responded"
    /\ reqs' = [reqs EXCEPT ![r] = NoRequest]
    /\ UNCHANGED <<env, pc, exitCode, log, JWT_SECRET, NODE_ENV, IS_PRODUCTION,
                   pool, options, server, shutdowns, now>>

\* time passes
Tick ==
    /\ Idle
    /\ now < MaxTime
    /\ now' = now + 1
    /\ UNCHANGED <<env, pc, exitCode, log, JWT_SECRET, NODE_ENV, IS_PRODUCTION,
                   pool, options, server, reqs, shutdowns>>

-----------------------------------------------------------------------------
(* Pool events, lines 70-82 *)

\* idleTimeoutMillis, line 75: an idle client is closed and removed
IdleTimeout ==
    /\ Idle
    /\ pool.idle > 0
    /\ pool' = [pool EXCEPT !.idle = @ - 1]
    /\ UNCHANGED <<env, pc, exitCode, log, JWT_SECRET, NODE_ENV, IS_PRODUCTION,
                   options, server, reqs, shutdowns, now>>

\* an 'error' handler that logs the fault and lets the process go on
PoolErrorLogOnly ==
    /\ Idle
    /\ pool.idle > 0
    /\ pool' = [pool EXCEPT !.idle = @ - 1]
    /\ log' = log \cup {"[PostgreSQL] Unexpected error on idle client"}
    /\ UNCHANGED <<env, pc, exitCode, JWT_SECRET, NODE_ENV, IS_PRODUCTION,
                   options, server, reqs, shutdowns, now>>

\* lines 78-82: the pool's 'error' event, emitted when an idle client fails
PoolError ==
    /\ Idle
    /\ pool.idle > 0
    /\ pool' = [pool EXCEPT !.idle = @ - 1]
    /\ log' = log \cup {"[PostgreSQL] Unexpected error on idle client"}
    /\ Exit(-1)
    /\ UNCHANGED <<env, JWT_SECRET, NODE_ENV, IS_PRODUCTION, options, server,
                   reqs, shutdowns, now>>

-----------------------------------------------------------------------------
(* Shutdown, lines 233-268 *)

Signals == {"SIGTERM", "SIGINT"}

\* pgPool.end(): the first call starts the drain (idle clients are removed, and
\* the pool has ended once no client is checked out); a later call is rejected
PoolEnd(p, rs) == [p EXCEPT !.ending = TRUE,
                            !.idle = 0,
                            !.ended = (p.ended \/ (~p.ending /\ CheckedOut(rs) = {}))]

\* lines 234-244 / 253-261: the handler up to its await
Signal(sig) ==
    /\ Idle
    /\ Len(shutdowns) < MaxSignals
    /\ log' = log \cup {"[System] " \o sig \o " received, shutting down..."}
    /\ server' = [server EXCEPT !.listening = FALSE, !.closeCbs = @ + 1]
    /\ pool' = PoolEnd(pool, reqs)
    /\ shutdowns' = Append(shutdowns, [sig |-> sig, rejected |-> pool.ending])
    /\ UNCHANGED <<env, pc, exitCode, JWT_SECRET, NODE_ENV, IS_PRODUCTION,
                   options, reqs, now>>

\* a handler without the try/catch: the rejection of pgPool.end() leaves the
\* async handler as an unhandled rejection, which ends the process with 1
ShutdownResumeUncaught(i) ==
    /\ Micro
    /\ i \in DOMAIN shutdowns
    /\ Settled(i)
    /\ log' = log \cup {IF shutdowns[i].rejected
                        THEN "[System] Error closing database pool"
                        ELSE "[System] Database pool closed"}
    /\ Exit(IF shutdowns[i].rejected THEN 1 ELSE 0)
    /\ UNCHANGED <<env, JWT_SECRET, NODE_ENV, IS_PRODUCTION, pool, options,
                   server, reqs, shutdowns, now>>

\* lines 245-250 / 262-267: the handler after its await
ShutdownResume(i) ==
    /\ Micro
    /\ i \in DOMAIN shutdowns
    /\ Settled(i)
    /\ log' = log \cup {IF shutdowns[i].rejected
                        THEN "[System] Error closing database pool"
                        ELSE "[System] Database pool closed"}
    /\ Exit(0)
    /\ UNCHANGED <<env, JWT_SECRET, NODE_ENV, IS_PRODUCTION, pool, options,
                   server, reqs, shutdowns, now>>

\* lines 238-240 / 256-258: the callbacks given to server.close
ServerClosed ==
    /\ CloseRunnable
    /\ log' = log \cup {"[System] HTTP server closed"}
    /\ server' = [server EXCEPT !.closeCbs = 0, !.closed = TRUE]
    /\ UNCHANGED <<env, pc, exitCode, JWT_SECRET, NODE_ENV, IS_PRODUCTION,
                   pool, options, reqs, shutdowns, now>>

-----------------------------------------------------------------------------
(* The process *)

Init ==
    /\ env \in {EnvOf(c) : c \in EnvChoices}
    /\ pc = "validateEnv"
    /\ exitCode = 0
    /\ log = {}
    /\ JWT_SECRET = ""
    /\ NODE_ENV = ""
    /\ IS_PRODUCTION = FALSE
    /\ pool = [constructed |-> FALSE, idle |-> 0, ending |-> FALSE, ended |-> FALSE]
    /\ options = EmptyObject
    /\ server = [bound |-> FALSE, listening |-> FALSE, closeCbs |-> 0, closed |-> FALSE]
    /\ reqs = [r \in 1..MaxConnections |-> NoRequest]
    /\ shutdowns = <<>>
    /\ now = 0

Next ==
    \/ ValidateEnv
    \/ Configure
    \/ SecretCheck
    \/ NewPool
    \/ InitPostgraphile
    \/ Listen
    \/ OnSignals
    \/ ListenCallback
    \/ \E r \in Requests : Accept(r)
    \/ \E r \in Requests, kind \in Kinds, h \in Headers :
          /\ kind # "graphql" => h = EmptyObject
          /\ Dispatch(r, kind, h)
    \/ \E r \in Requests, ok \in BOOLEAN : DbReply(r, ok)
    \/ \E r \in Requests : Respond(r)
    \/ \E r \in Requests : ConnClose(r)
    \/ Tick
    \/ IdleTimeout
    \/ PoolError
    \/ \E sig \in Signals : Signal(sig)
    \/ \E i \in 1..MaxSignals : ShutdownResume(i)
    \/ ServerClosed

\* the process started with one of the connection strings of DbCredentials
LogInit ==
    /\ env \in {EnvOf(c) : c \in UrlEnvChoices}
    /\ pc = "validateEnv"
    /\ exitCode = 0
    /\ log = {}
    /\ JWT_SECRET = ""
    /\ NODE_ENV = ""
    /\ IS_PRODUCTION = FALSE
    /\ pool = [constructed |-> FALSE, idle |-> 0, ending |-> FALSE, ended |-> FALSE]
    /\ options = EmptyObject
    /\ server = [bound |-> FALSE, listening |-> FALSE, closeCbs |-> 0, closed |-> FALSE]
    /\ reqs = [r \in 1..MaxConnections |-> NoRequest]
    /\ shutdowns = <<>>
    /\ now = 0

Spec == Init /\ [][Next]_vars

LogSpec == LogInit /\ [][Next]_vars

\* a process started in production with a long secret, and one connection
\* more than in Init, so that requests to the engine overlap
ConcInit ==
    /\ env = [DATABASE_URL |-> "postgres://app:pw@db/main",
              JWT_SECRET |-> Secret32,
              NODE_ENV |-> "production"]
    /\ pc = "validateEnv"
    /\ exitCode = 0
    /\ log = {}
    /\ JWT_SECRET = ""
    /\ NODE_ENV = ""
    /\ IS_PRODUCTION = FALSE
    /\ pool = [constructed |-> FALSE, idle |-> 0, ending |-> FALSE, ended |-> FALSE]
    /\ options = EmptyObject
    /\ server = [bound |-> FALSE, listening |-> FALSE, closeCbs |-> 0, closed |-> FALSE]
    /\ reqs = [r \in 1..(MaxConnections + 1) |-> NoRequest]
    /\ shutdowns = <<>>
    /\ now = 0

\* the start-up and the traffic to the engine: no signal arrives, no client
\* of the pool fails, the probe routes are not called
ConcNext ==
    \/ ValidateEnv
    \/ Configure
    \/ SecretCheck
    \/ NewPool
    \/ InitPostgraphile
    \/ Listen
    \/ OnSignals
    \/ ListenCallback
    \/ \E r \in Requests : Accept(r)
    \/ \E r \in Requests, h \in Headers : Dispatch(r, "graphql", h)
    \/ \E r \in Requests, ok \in BOOLEAN : DbReply(r, ok)
    \/ \E r \in Requests : Respond(r)
    \/ \E r \in Requests : ConnClose(r)
    \/ Tick

ConcSpec == ConcInit /\ [][ConcNext]_vars

\* the steps the process takes by itself once they are due: the statements of
\* the script, the continuation of a handler whose await has settled, the
\* answer to a request whose query has settled, the server.close callback
ProcessStep ==
    \/ ValidateEnv
    \/ Configure
    \/ SecretCheck
    \/ NewPool
    \/ InitPostgraphile
    \/ Listen
    \/ OnSignals
    \/ ListenCallback
    \/ \E r \in Requests : Respond(r)
    \/ \E i \in 1..MaxSignals : ShutdownResume(i)
    \/ ServerClosed

\* The event loop runs what is due; nothing makes a client connect, send, or
\* hang up, the database answer, or a signal arrive.
FairSpec == Spec /\ WF_vars(ProcessStep)

-----------------------------------------------------------------------------
(* Properties *)

\* the environment sets key to a non-empty value
Present(key) == key \in DOMAIN env /\ Len(env[key]) > 0

\* the deployment tier the process was started in is production
ProductionTier == "NODE_ENV" \in DOMAIN env /\ env["NODE_ENV"] = "production"

\* the script is still before the construction of the pool
BeforePool == pc \in {"validateEnv", "config", "secretCheck", "exited"}

\* C1: when DATABASE_URL or JWT_SECRET is unset or empty, the process never
\* gets past validateEnv: its only way on is the exit with status 1, and no
\* pool is constructed and no listener bound in that run.
C1_MissingVarIsFatal ==
    (~Present("DATABASE_URL") \/ ~Present("JWT_SECRET")) =>
        /\ pc \in {"validateEnv", "exited"}
        /\ pc = "exited" => exitCode = 1
        /\ ~pool.constructed
        /\ ~server.bound
        /\ ~server.listening

C1_Witness ==
    /\ "DATABASE_URL" \in DOMAIN env /\ env["DATABASE_URL"] = ""
    /\ Present("JWT_SECRET")
    /\ pc = "exited"
    /\ exitCode = 1
    /\ "[FATAL] Missing required environment variables" \in log

\* C2: in production, a secret that is present but shorter than 32
\* characters ends the start-up with a non-zero status before the pool and
\* the listener exist; a secret of 32 characters or more never makes the
\* secret check end the start-up.
C2_ShortSecretFatalInProduction ==
    /\ (ProductionTier /\ Present("JWT_SECRET") /\ Len(env["JWT_SECRET"]) < 32) =>
          /\ BeforePool
          /\ pc = "exited" => exitCode # 0
          /\ ~pool.constructed
          /\ ~server.bound
    /\ (ProductionTier /\ Present("JWT_SECRET") /\ Len(env["JWT_SECRET"]) >= 32) =>
          /\ "[FATAL] JWT_SECRET must be at least 32 characters in production" \notin log
          /\ (Present("DATABASE_URL") /\ pc = "exited") => server.bound

C2_Witness ==
    /\ ProductionTier
    /\ Present("DATABASE_URL")
    /\ Present("JWT_SECRET")
    /\ Len(env["JWT_SECRET"]) = 31
    /\ pc = "exited"
    /\ exitCode = 1
    /\ "[FATAL] JWT_SECRET must be at least 32 characters in production" \in log

\* the connections whose request has been through pgSettings and is not yet
\* answered
Resolved == {r \in Requests : reqs[r].resolved}

\* the request carries a Bearer credential
CarriesBearer(h) ==
    /\ "authorization" \in DOMAIN h
    /\ Len(h.authorization) >= 7
    /\ SubSeq(h.authorization, 1, 7) = "Bearer "

\* the credential of a request that carries one: what follows "Bearer "
CredentialOf(h) ==
    IF Len(h.authorization) = 7 THEN ""
    ELSE SubSeq(h.authorization, 8, Len(h.authorization))

\* the credential is a token signed with the secret of this process and not
\* expired at instant t
ValidAt(tok, t) ==
    /\ tok \in DOMAIN Tokens
    /\ Tokens[tok].key = env["JWT_SECRET"]
    /\ "exp" \in DOMAIN Tokens[tok].payload => t < Tokens[tok].payload.exp.v

\* C3: a request with no authorization header, or with one that does not
\* start with 'Bearer ', resolves to the empty context: pgSettings returns
\* an object with no member at all.
C3_NoCredentialEmptyContext ==
    \A r \in Resolved :
        ~CarriesBearer(reqs[r].headers) =>
            /\ ~reqs[r].settings.threw
            /\ DOMAIN reqs[r].settings.value = {}

C3_Witness ==
    \E r \in Resolved :
        /\ reqs[r].headers = [authorization |-> "bearer t.full"]
        /\ env["JWT_SECRET"] = Tokens["t.full"].key
        /\ reqs[r].settings.value = EmptyObject

\* C4: pgSettings never throws, and a Bearer credential that is malformed,
\* signed with another secret or expired resolves to the empty context.
C4_BadCredentialEmptyContext ==
    \A r \in Resolved :
        /\ ~reqs[r].settings.threw
        /\ (/\ CarriesBearer(reqs[r].headers)
            /\ ~ValidAt(CredentialOf(reqs[r].headers), reqs[r].at)) =>
                DOMAIN reqs[r].settings.value = {}

C4_Witness ==
    \E r \in Resolved :
        /\ reqs[r].headers = [authorization |-> "Bearer t.str"]
        /\ env["JWT_SECRET"] = Tokens["t.str"].key
        /\ reqs[r].at >= Tokens["t.str"].payload.exp.v
        /\ reqs[r].settings = [threw |-> FALSE, value |-> EmptyObject]

\* the string form of the subjects the tokens carry
StringForm(x) == CASE x = Num(1)    -> "1"
                   [] x = Num(7)    -> "7"
                   [] x = Num(42)   -> "42"
                   [] x = Str("u7") -> "u7"

\* C5: a validly signed, unexpired credential with subject S and tenant T
\* resolves to the context with exactly the two entries 'user.id', the
\* string form of S, and 'user.tenant_id', T.
C5_ValidCredentialExactContext ==
    \A r \in Resolved :
        LET h == reqs[r].headers
            p == Tokens[CredentialOf(h)].payload
            c == reqs[r].settings.value
        IN  (/\ CarriesBearer(h)
             /\ ValidAt(CredentialOf(h), reqs[r].at)
             /\ {"userId", "tenantId"} \subseteq DOMAIN p) =>
                /\ ~reqs[r].settings.threw
                /\ DOMAIN c = {"user.id", "user.tenant_id"}
                /\ c["user.id"] = Str(StringForm(p.userId))
                /\ c["user.tenant_id"] = p.tenantId

C5_Witness ==
    \E r \in Resolved :
        /\ reqs[r].headers = [authorization |-> "Bearer t.full"]
        /\ DOMAIN reqs[r].settings.value = {"user.id", "user.tenant_id"}
        /\ reqs[r].settings.value["user.id"] = Str("42")
        /\ reqs[r].settings.value["user.tenant_id"] = Str("t1")

\* C6: a validly signed, unexpired credential with a subject and no tenant
\* resolves to a context that has the 'user.id' entry and no
\* 'user.tenant_id' member at all.
C6_NoTenantNoTenantEntry ==
    \A r \in Resolved :
        LET h == reqs[r].headers
            p == Tokens[CredentialOf(h)].payload
            c == reqs[r].settings.value
        IN  (/\ CarriesBearer(h)
             /\ ValidAt(CredentialOf(h), reqs[r].at)
             /\ "userId" \in DOMAIN p
             /\ "tenantId" \notin DOMAIN p) =>
                /\ "user.id" \in DOMAIN c
                /\ "user.tenant_id" \notin DOMAIN c

\* postgraphile(...) has been called with its option object
OptionsBuilt == DOMAIN options # {}

\* C7: once built, the engine options are decided by the tier alone: in
\* production the explorer route is off and complexity and depth are capped
\* at 1000 and 10; outside production the explorer is on and neither cap is
\* set.  From the call of postgraphile on the options are there.
C7_EngineOptionsByTier ==
    /\ pc \in {"listen", "signals", "listening", "running"} => OptionsBuilt
    /\ OptionsBuilt =>
          IF ProductionTier
          THEN /\ options.graphiqlRoute = Bool(FALSE)
               /\ options.graphiql = FALSE
               /\ options.maxAllowedComplexity = Num(1000)
               /\ options.maxAllowedDepth = Num(10)
          ELSE /\ options.graphiqlRoute = Str("/graphiql")
               /\ options.graphiql = TRUE
               /\ options.maxAllowedComplexity = Undefined
               /\ options.maxAllowedDepth = Undefined

C7_Witness ==
    /\ ProductionTier
    /\ pc = "running"
    /\ \E r \in Requests : reqs[r].stage = "querying" /\ reqs[r].kind = "graphql"
    /\ options.graphiql = FALSE
    /\ options.maxAllowedDepth = Num(10)

\* lines 59-62 have run: the configuration constants are defined
Configured ==
    \/ pc \notin {"validateEnv", "config", "exited"}
    \/ pc = "exited" /\ "[Config] Environment validation passed" \in log

\* what the tier gates, in every state
TierGates ==
    /\ Configured =>
          /\ IS_PRODUCTION = ProductionTier
          /\ NODE_ENV = IF ProductionTier THEN "production" ELSE "development"
    /\ "[WARN] Security warnings" \in log => ProductionTier
    /\ "[FATAL] JWT_SECRET must be at least 32 characters in production" \in log =>
          IS_PRODUCTION /\ ProductionTier
    /\ OptionsBuilt =>
          IF ProductionTier
          THEN /\ options.extendedErrors = <<>>
               /\ options.showErrorStack = FALSE
               /\ options.watchPg = FALSE
          ELSE /\ options.extendedErrors = <<"hint", "detail", "errcode">>
               /\ options.showErrorStack = TRUE
               /\ options.watchPg = TRUE

\* no step changes the tier or what was derived from it
TierFixed ==
    /\ env' = env
    /\ Configured =>
          IS_PRODUCTION' = IS_PRODUCTION /\ NODE_ENV' = NODE_ENV
    /\ OptionsBuilt => options' = options

\* C8: the tier is read once and never changes: IS_PRODUCTION equals the
\* tier of the environment from its definition on, the secret check and
\* the engine options are decided by that one value, and in production
\* extended errors, error stacks and schema watching are all off while
\* outside production all three are on.
C8_TierFixedAndGating == []TierGates /\ [][TierFixed]_vars

C8_Witness ==
    /\ "NODE_ENV" \notin DOMAIN env
    /\ pc = "exited"
    /\ shutdowns # <<>>
    /\ ~IS_PRODUCTION
    /\ options.showErrorStack
    /\ options.watchPg
    /\ options.extendedErrors = <<"hint", "detail", "errcode">>

\* C9: the process has exited with status 0 only after the callback of
\* server.close has run and the pool has ended.
C9_ExitAfterCloseAndDrain ==
    (pc = "exited" /\ exitCode = 0) => (server.closed /\ pool.ended)

\* C10: from the signal on the listener accepts nothing, and when the
\* process has exited with status 0 every connection open at the signal has
\* had its response, none of them failed by the ending pool.
C10_InFlightAnsweredBeforeExit ==
    /\ shutdowns # <<>> => ~server.listening
    /\ (pc = "exited" /\ exitCode = 0) =>
          \A r \in Requests :
              /\ reqs[r].stage \in {"none", "responded"}
              /\ reqs[r].cause # "pool ended"

\* the process has ended
Stopped == pc = "exited"

\* some termination signal has started a shutdown
ShutdownStarted == shutdowns # <<>>

\* C11: a process that ends after a termination signal has started a shutdown
\* ends with status 0, and so does every process that logged a failed pool
\* drain: the failure is logged, and the exit that follows it is the exit 0
\* of the handler.
C11_SignalShutdownExitsZero ==
    /\ (Stopped /\ ShutdownStarted) => exitCode = 0
    /\ ("[System] Error closing database pool" \in log) =>
          /\ Stopped
          /\ exitCode = 0
          /\ \E i \in DOMAIN shutdowns : shutdowns[i].rejected

C11_Witness ==
    /\ Stopped
    /\ exitCode = 0
    /\ "[System] Error closing database pool" \in log
    /\ \E i \in DOMAIN shutdowns : shutdowns[i].rejected

\* C12: once the pool has reported a fault of an idle client, the process has
\* ended with a non-zero status: no state exists in which the fault was
\* reported and the process is still running.
C12_PoolFaultIsFatal ==
    ("[PostgreSQL] Unexpected error on idle client" \in log) =>
        /\ Stopped
        /\ exitCode # 0

C12_Witness ==
    /\ "[PostgreSQL] Unexpected error on idle client" \in log
    /\ pool.constructed
    /\ Stopped
    /\ exitCode = 255

\* C13: the drain started by a signal completes at once when no client is
\* checked out, and in every case the process that received a signal
\* eventually ends, whether or not a checked-out client is ever released.
C13_DrainAlwaysCompletes ==
    /\ []((ShutdownStarted /\ CheckedOut(reqs) = {}) => pool.ended)
    /\ (ShutdownStarted ~> Stopped)

\* the probe routes, which query the pool directly
ProbeKinds == {"health", "schema"}

\* the statuses of the answers to the probe routes
ProbeStatuses ==
    \A r \in Requests :
        reqs[r].stage = "responded" =>
            /\ reqs[r].kind = "health" =>
                  /\ reqs[r].status = 200 <=> reqs[r].dbok
                  /\ reqs[r].status = 503 <=> ~reqs[r].dbok
            /\ (reqs[r].kind = "schema" /\ ~reqs[r].dbok) => reqs[r].status = 500

\* a step in which the query of a probe fails, or in which a probe is
\* answered, leaves the process running and the listener as it was, and does
\* not tear the pool down
ProbeKeepsServing ==
    \A r \in Requests :
        /\ ( /\ reqs[r].kind \in ProbeKinds
             /\ reqs[r].stage = "querying"
             /\ reqs'[r].stage = "replying"
             /\ ~reqs'[r].dbok ) =>
               /\ pc = "running" /\ pc' = pc /\ exitCode' = exitCode
               /\ server' = server /\ shutdowns' = shutdowns
               /\ pool'.constructed /\ pool'.ending = pool.ending
               /\ ~pool.ending => pool' = pool
        /\ ( /\ reqs[r].kind \in ProbeKinds
             /\ reqs[r].stage = "replying"
             /\ reqs'[r].stage = "responded" ) =>
               /\ pc = "running" /\ pc' = pc /\ exitCode' = exitCode
               /\ server' = server /\ shutdowns' = shutdowns
               /\ pool' = pool

\* C14: /health answers 200 exactly when its query succeeded and 503 exactly
\* when it failed, /schema answers 500 when its query failed, and neither a
\* failed query nor the answer to it changes the lifecycle state, the
\* listener or the pool: the process keeps serving.
C14_ProbesReportAndKeepServing == []ProbeStatuses /\ [][ProbeKeepsServing]_vars

C14_Witness ==
    /\ pc = "running"
    /\ server.listening
    /\ pool.constructed /\ ~pool.ending
    /\ \E r \in Requests :
          /\ reqs[r].stage = "responded"
          /\ reqs[r].kind = "health"
          /\ ~reqs[r].dbok
          /\ reqs[r].cause = "query failed"
          /\ reqs[r].status = 503

\* sub occurs in s
Contains(s, sub) ==
    \E i \in 1..(Len(s) - Len(sub) + 1) : SubSeq(s, i, i + Len(sub) - 1) = sub

\* the pieces of a password of three consecutive characters
Fragments(password) ==
    {SubSeq(password, i, i + 2) : i \in 1..(Len(password) - 2)}

\* C15: no line of the log contains a piece of the password embedded in
\* DATABASE_URL (three consecutive characters of it are enough to count as a
\* piece), whatever the password contains, and no line of the log contains
\* the JWT secret.
C15_LogHidesPasswordAndSecret ==
    \A line \in log :
        /\ \A c \in DbCredentials :
              ("DATABASE_URL" \in DOMAIN env /\ env["DATABASE_URL"] = UrlOf(c)) =>
                  \A f \in Fragments(c.password) : ~Contains(line, f)
        /\ Present("JWT_SECRET") => ~Contains(line, env["JWT_SECRET"])

\* the context resolved for request r holds nothing but what the credential
\* of r itself carries
OwnContext(r) ==
    LET h == reqs[r].headers
        c == reqs[r].settings.value
    IN  c # EmptyObject =>
            /\ CarriesBearer(h)
            /\ ValidAt(CredentialOf(h), reqs[r].at)
            /\ LET p == Tokens[CredentialOf(h)].payload
               IN  /\ "userId" \in DOMAIN p => c["user.id"] = Str(StringForm(p.userId))
                   /\ c["user.tenant_id"] = Member(p, "tenantId")

\* C16: whatever other requests are in flight, the context of a request is
\* determined by its own authorization header (and the instant it was
\* resolved at): two requests with the same header resolved at the same
\* instant have the same context, and the subject and the tenant of a
\* context are those of the request's own credential.
C16_ContextFromOwnCredential ==
    /\ \A r \in Resolved : OwnContext(r)
    /\ \A r1, r2 \in Resolved :
          (reqs[r1].headers = reqs[r2].headers /\ reqs[r1].at = reqs[r2].at) =>
              reqs[r1].settings = reqs[r2].settings

C16_Witness ==
    \E r1, r2 \in Resolved :
        /\ r1 # r2
        /\ reqs[r1].stage = "querying" /\ reqs[r2].stage = "querying"
        /\ reqs[r1].headers = [authorization |-> "Bearer t.full"]
        /\ reqs[r2].headers = [authorization |-> "Bearer t.str"]
        /\ reqs[r1].settings.value["user.id"] = Str("42")
        /\ reqs[r2].settings.value["user.id"] = Str("u7")
        /\ reqs[r1].settings.value["user.tenant_id"] = Str("t1")
        /\ reqs[r2].settings.value["user.tenant_id"] = Num(3)

\* what validateEnv did is a function of the environment alone: it ended the
\* process with status 1 when a required variable is unset or empty, and it
\* passed otherwise, warning exactly when the tier is production and the
\* secret is short
ValidationByEnv ==
    pc # "validateEnv" =>
        IF ~Present("DATABASE_URL") \/ ~Present("JWT_SECRET")
        THEN /\ pc = "exited"
             /\ exitCode = 1
             /\ "[FATAL] Missing required environment variables" \in log
             /\ "[Config] Environment validation passed" \notin log
        ELSE /\ "[FATAL] Missing required environment variables" \notin log
             /\ "[Config] Environment validation passed" \in log
             /\ "[WARN] Security warnings" \in log
                    <=> (ProductionTier /\ Len(env["JWT_SECRET"]) < 32)

\* C17: the outcome of validateEnv is determined by the environment, and
\* validateEnv leaves the environment as it found it; so a second run on the
\* same environment has the outcome of the first (both pass, or both end
\* with status 1).
C17_ValidationDeterministic ==
    /\ []ValidationByEnv
    /\ [][pc = "validateEnv" => env' = env]_vars

C17_Witness ==
    /\ pc = "config"
    /\ "[Config] Environment validation passed" \in log
    /\ "[WARN] Security warnings" \in log
    /\ DOMAIN env = EnvKeys
    /\ env["JWT_SECRET"] = Secret31

\* C18: outside production a secret that is present but shorter than 32
\* characters does not end the start-up: once validateEnv has run the
\* security warning is in the log, and the process ends only after it has
\* constructed the pool and bound the listener.
C18_ShortSecretWarnsOutsideProduction ==
    ( /\ ~ProductionTier
      /\ Present("DATABASE_URL")
      /\ Present("JWT_SECRET")
      /\ Len(env["JWT_SECRET"]) < 32
      /\ pc # "validateEnv" ) =>
        /\ "[WARN] Security warnings" \in log
        /\ pc = "exited" => (pool.constructed /\ server.bound)

\* the drains of the pool that were started: the calls of pgPool.end() that
\* were not rejected
DrainsStarted == {i \in DOMAIN shutdowns : ~shutdowns[i].rejected}

\* C19: whatever signals arrive and in whatever order, at most one drain of
\* the pool is started, and a process that ends through a signal handler
\* ends only after that drain has completed.
C19_OneDrainCompletedBeforeExit ==
    /\ Cardinality(DrainsStarted) <= 1
    /\ (Stopped /\ ShutdownStarted /\ exitCode = 0) => pool.ended

\* C20: the 'user.id' entry of a context is the string form of a subject
\* that the credential carries: a valid, unexpired credential without a
\* subject gives a context without a 'user.id' entry, never one whose
\* 'user.id' is a made-up value such as "undefined".
C20_SubjectEntryOnlyFromSubject ==
    \A r \in Resolved :
        LET h == reqs[r].headers
            c == reqs[r].settings.value
        IN  "user.id" \in DOMAIN c =>
                /\ CarriesBearer(h)
                /\ ValidAt(CredentialOf(h), reqs[r].at)
                /\ "userId" \in DOMAIN Tokens[CredentialOf(h)].payload
                /\ c["user.id"] = Str(StringForm(Tokens[CredentialOf(h)].payload.userId))

====
